---------------------------- MODULE Spec2Model ----------------------------
(***************************************************************************)
(* Godot LSP bridge: the stdio <-> TCP bridge script.                      *)
(*                                                                         *)
(* Two revisions of the script are in the repository:                      *)
(*   "part_001"  src/unnamed/part_001     (frame interceptor, cleanup that *)
(*                                         kills the launched editor)      *)
(*   "src"       src/godot-lsp-bridge.js  (no interceptor, no kill)        *)
(*                                                                         *)
(* Part I   models createLspInterceptor (bytes are integers 0..255, JS     *)
(*          strings are sequences of UTF-16 code units).                   *)
(* Part II  models main / launchGodotEditor as a state machine driven by   *)
(*          the event loop (probe results, timers, socket events, signals).*)
(***************************************************************************)
EXTENDS Integers, Sequences, FiniteSets, TLC

VARIABLES
    \* ---- Part I: createLspInterceptor ----
    sent,        \* the frames the client writes, in order: [bytes, body]
    stream,      \* all bytes that process.stdin will deliver, in order
    pos,         \* number of bytes of stream already delivered as chunks
    buffer,      \* `buffer` of the interceptor closure (part_001:230)
    frames,      \* one record per loop iteration that emitted: the bytes it
                 \* consumed and the Buffers it handed to this.push
    spanned,     \* some transform() call has returned with bytes left in
                 \* buffer: a frame has spanned a chunk boundary
    junk         \* bytes the client writes ahead of the frames that are no
                 \* frame; empty when the stream is well formed

ivars == <<sent, stream, pos, buffer, frames, spanned, junk>>

VARIABLES
    \* ---- Part II: main / launchGodotEditor ----
    build,        \* which revision of the script runs: "part_001" or "src"
    platform,     \* os.platform(): "win32", "linux" or "darwin"
    display,      \* process.env.DISPLAY is set
    pc,           \* where main is suspended, or "Exited"
    port,         \* the module-level `port`
    lspRunning,   \* main's `lspRunning`
    spawnedGodotProcess,  \* the child handle (part_001:142; the local
                          \* godotProcess of src/godot-lsp-bridge.js:166)
    spawnCmd,     \* the command handed to spawn: "none", "godot", "xvfb-run"
    godotAlive,   \* the launched editor process is running
    loopI,        \* `i` of the readiness poll loop (part_001:203)
    handlers,     \* SIGTERM / SIGINT listeners are registered
    socketState,  \* main socket: "none", "connecting", "open", "ended"
    exitCode,     \* exit status of the bridge, -1 while it runs
    \* ---- observations of the run ----
    startPort,    \* the port main started with
    connectPort,  \* the port handed to socket.connect, 0 before that
    foundExisting,\* a probe of ProbingExisting returned true
    altProbes,    \* probes of the alternate port
    resolveCalls, \* calls of findGodot and findProjectFile
    spawnCount,   \* calls of spawn
    pollProbes,   \* isPortOpen calls made by the poll loop
    pollWaited,   \* total of the setTimeout delays of the poll loop
    firstReachable, \* number of the first poll probe that returned true, or 0
    progressLogs, \* "Still waiting..." lines written
    failure,      \* the fatal outcome met, "none" if none
    connectCalls, \* calls of socket.connect on the main socket
    socketEnds,   \* calls of socket.end
    killAttempts, \* calls of spawnedGodotProcess.kill / taskkill
    cause,        \* why the bridge exited, "none" while it runs
    \* ---- the streams of the bridge process ----
    fromSocket,   \* the chunks the main socket has received, in order
    stdout,       \* what has been written to process.stdout, in order
    stderr,       \* the kinds of message written with console.error
    childWrites,  \* writes the launched editor made to its stdout / stderr
    cleanupRuns,  \* runs of cleanup (part_001:314)
    killFailed,   \* the kill / taskkill of cleanup threw
    \* ---- the ports the run has used ----
    probedPort,   \* the port of the most recent isPortOpen call, 0 if none
    lastOpenPort, \* the port of the most recent call that returned true
    launchPort    \* the --lsp-port handed to the editor, 0 before the launch

svars == <<build, platform, display, pc, port, lspRunning,
           spawnedGodotProcess, spawnCmd, godotAlive, loopI, handlers,
           socketState, exitCode, startPort, connectPort, foundExisting,
           altProbes, resolveCalls, spawnCount, pollProbes, pollWaited,
           firstReachable, progressLogs, failure, connectCalls, socketEnds,
           killAttempts, cause, fromSocket, stdout, stderr, childWrites,
           cleanupRuns, killFailed, probedPort, lastOpenPort, launchPort>>

VARIABLES
    \* ---- Part III: one call of isPortOpen ----
    probePort,    \* the `port` argument of the call, 0 before the call
    endpoint,     \* what listens there: "accepts", "refuses" or "silent"
    probeClock,   \* ms since socket.connect of the probe socket
    probeSocket,  \* probe socket: "none", "connecting" or "destroyed"
    probeResult,  \* the returned promise: "notCalled", "pending", "true",
                  \* "false" or "rejected"
    probeFirst,   \* the first event the probe socket emitted, or "none"
    probeEvents,  \* number of events the probe socket has emitted
    socketAtSettle \* state of the probe socket when the promise was settled

pvars == <<probePort, endpoint, probeClock, probeSocket, probeResult,
           probeFirst, probeEvents, socketAtSettle>>

vars == <<ivars, svars, pvars>>

(***************************************************************************)
(* Text literals of the source, as byte / code-unit sequences.             *)
(***************************************************************************)
\* "Content-Length: "
ContentLengthPrefix ==
    <<67,111,110,116,101,110,116,45,76,101,110,103,116,104,58,32>>
\* "\r\n"
CRLF == <<13,10>>
\* "\r\n\r\n"
HeaderEnd == <<13,10,13,10>>
\* "languageId":"plaintext"   (with the quotes)
RewriteTarget ==
    <<34,108,97,110,103,117,97,103,101,73,100,34,58,34,
      112,108,97,105,110,116,101,120,116,34>>
\* "languageId":"gdscript"    (with the quotes)
RewriteReplacement ==
    <<34,108,97,110,103,117,97,103,101,73,100,34,58,34,
      103,100,115,99,114,105,112,116,34>>
\* U+FFFD, what the UTF-8 decoder yields for a byte it cannot decode
ReplacementChar == 65533

(***************************************************************************)
(* JavaScript built-ins used by the interceptor.  Indices are 0-based and  *)
(* ends are exclusive, as in JavaScript.                                   *)
(***************************************************************************)
\* Buffer.prototype.slice(from, to) / String.prototype.substring(from, to)
Slice(s, from, to) ==
    LET t == IF to > Len(s) THEN Len(s) ELSE to
        f == IF from > t THEN t ELSE from
    IN  SubSeq(s, f + 1, t)

\* does pat occur in s at 0-based index i
StartsAt(s, pat, i) ==
    /\ i >= 0
    /\ i + Len(pat) <= Len(s)
    /\ \A k \in 1..Len(pat) : s[i + k] = pat[k]

MinOf(S) == CHOOSE x \in S : \A y \in S : x <= y

\* String.prototype.indexOf(pat): first index, -1 when absent
IndexOf(s, pat) ==
    LET hits == {i \in 0..(Len(s) - Len(pat)) : StartsAt(s, pat, i)}
    IN  IF hits = {} THEN -1 ELSE MinOf(hits)

\* String.prototype.includes(pat)
Includes(s, pat) == IndexOf(s, pat) # -1

\* \d
IsDigit(c) == c \in 48..57

\* index just past the maximal run of digits that starts at index i
RECURSIVE DigitRunEnd(_, _)
DigitRunEnd(s, i) ==
    IF i < Len(s) /\ IsDigit(s[i + 1]) THEN DigitRunEnd(s, i + 1) ELSE i

\* parseInt(digits, 10) on a non-empty run of decimal digits
RECURSIVE ParseInt(_)
ParseInt(d) ==
    IF Len(d) = 0 THEN 0
    ELSE ParseInt(SubSeq(d, 1, Len(d) - 1)) * 10 + (d[Len(d)] - 48)

\* `${n}` for a non-negative integer
RECURSIVE ToDecimal(_)
ToDecimal(n) ==
    IF n < 10 THEN <<48 + n>>
    ELSE ToDecimal(n \div 10) \o <<48 + (n % 10)>>

\* Buffer.prototype.toString('utf8').  One- and two-byte sequences are
\* decoded; a byte that starts no such sequence (a lone continuation byte,
\* a lead byte without its continuation, 0xF8..0xFF) decodes to U+FFFD.
\* The byte alphabet of the model holds no three- or four-byte lead.
RECURSIVE Utf8DecodeFrom(_, _)
Utf8DecodeFrom(b, i) ==
    IF i > Len(b) THEN <<>>
    ELSE IF b[i] < 128 THEN <<b[i]>> \o Utf8DecodeFrom(b, i + 1)
    ELSE IF b[i] \in 194..223 /\ i < Len(b) /\ b[i + 1] \in 128..191
         THEN <<(b[i] - 192) * 64 + (b[i + 1] - 128)>>
              \o Utf8DecodeFrom(b, i + 2)
    ELSE <<ReplacementChar>> \o Utf8DecodeFrom(b, i + 1)

Utf8Decode(b) == Utf8DecodeFrom(b, 1)

\* Buffer.from(str, 'utf8') for code units of the Basic Multilingual Plane
RECURSIVE Utf8Encode(_)
Utf8Encode(s) ==
    IF Len(s) = 0 THEN <<>>
    ELSE LET c == Head(s)
             e == IF c < 128 THEN <<c>>
                  ELSE IF c < 2048 THEN <<192 + (c \div 64), 128 + (c % 64)>>
                  ELSE <<224 + (c \div 4096), 128 + ((c \div 64) % 64),
                         128 + (c % 64)>>
         IN  e \o Utf8Encode(Tail(s))

\* Buffer.concat / sequence flattening
RECURSIVE Flatten(_)
Flatten(ss) == IF Len(ss) = 0 THEN <<>> ELSE Head(ss) \o Flatten(Tail(ss))

(***************************************************************************)
(* createLspInterceptor.transform, part_001:232-264                        *)
(***************************************************************************)
NoMatch == [index |-> -1, digits |-> <<>>]

\* does /Content-Length: (\d+)\r\n/ match at index i of str
ContentLengthAt(str, i) ==
    /\ StartsAt(str, ContentLengthPrefix, i)
    /\ LET d == i + Len(ContentLengthPrefix)
           e == DigitRunEnd(str, d)
       IN  e > d /\ StartsAt(str, CRLF, e)

\* str.match(/Content-Length: (\d+)\r\n/): the first match and its group 1
ContentLengthMatch(str) ==
    LET hits == {i \in 0..Len(str) : ContentLengthAt(str, i)}
    IN  IF hits = {} THEN NoMatch
        ELSE LET i == MinOf(hits)
                 d == i + Len(ContentLengthPrefix)
             IN  [index |-> i, digits |-> Slice(str, d, DigitRunEnd(str, d))]

\* body.replace(/"languageId":"plaintext"/g, '"languageId":"gdscript"')
RECURSIVE ReplaceAllFrom(_, _)
ReplaceAllFrom(s, i) ==
    IF i >= Len(s) THEN <<>>
    ELSE IF StartsAt(s, RewriteTarget, i)
         THEN RewriteReplacement \o ReplaceAllFrom(s, i + Len(RewriteTarget))
    ELSE <<s[i + 1]>> \o ReplaceAllFrom(s, i + 1)

RewriteBody(body) == ReplaceAllFrom(body, 0)

\* headers.replace(/Content-Length: \d+/, `Content-Length: ${n}`):
\* the first "Content-Length: <digits>" of the header text gets the length n
ReplaceContentLength(headers, n) ==
    LET hits == {i \in 0..Len(headers) :
                    /\ StartsAt(headers, ContentLengthPrefix, i)
                    /\ DigitRunEnd(headers, i + Len(ContentLengthPrefix))
                         > i + Len(ContentLengthPrefix)}
    IN  IF hits = {} THEN headers
        ELSE LET i == MinOf(hits)
                 e == DigitRunEnd(headers, i + Len(ContentLengthPrefix))
             IN  Slice(headers, 0, i) \o ContentLengthPrefix \o ToDecimal(n)
                 \o Slice(headers, e, Len(headers))

\* a header text that keeps the declared length it came with
KeepHeaders(headers, n) == headers

\* part_001:252-253
NewHeaders(headers, n) == ReplaceContentLength(headers, n)

\* a buffer that forgets what earlier chunks left behind
AccumulateChunkOnly(buf, chunk) == chunk

\* part_001:233   buffer = Buffer.concat([buffer, chunk])
Accumulate(buf, chunk) == buf \o chunk

\* a rewrite test that sends every frame down the rewrite path
NeedsRewriteAlways(body) == TRUE

\* part_001:249   body.includes('"languageId":"plaintext"')
NeedsRewrite(body) == Includes(body, RewriteTarget)

\* part_001:247-259: the Buffers pushed for the complete frame at the head of
\* buf (str is buf decoded, the frame is buf[0 .. bodyStart+contentLength))
EmitFrame(buf, str, headerEndIndex, bodyStart, contentLength) ==
    LET body == Utf8Decode(Slice(buf, bodyStart, bodyStart + contentLength))
    IN  IF NeedsRewrite(body)
        THEN LET newBody == Utf8Encode(RewriteBody(body))
                 newHeaders == NewHeaders(Slice(str, 0, headerEndIndex),
                                          Len(newBody))
             IN  <<Utf8Encode(newHeaders \o HeaderEnd), newBody>>
        ELSE <<Slice(buf, 0, bodyStart + contentLength)>>

\* an interceptor that emits a frame only once a byte beyond it is buffered
IncompleteOffByOne(buflen, bodyStart, contentLength) ==
    buflen <= bodyStart + contentLength

\* an interceptor that emits as soon as the header block is buffered
IncompleteNever(buflen, bodyStart, contentLength) == FALSE

\* part_001:245  if (buffer.length < bodyStart + contentLength) break
Incomplete(buflen, bodyStart, contentLength) ==
    buflen < bodyStart + contentLength

\* an interceptor that drops the byte after each frame it emits
RemainderSkipsByte(buf, end) == Slice(buf, end + 1, Len(buf))

\* part_001:261  buffer = buffer.slice(bodyStart + contentLength)
Remainder(buf, end) == Slice(buf, end, Len(buf))

\* an interceptor that handles one frame per chunk (an `if` for the `while`)
StopAfterEmit(buf, out) == [buffer |-> buf, out |-> out]

\* part_001:234-262: the while (true) loop; out collects what was emitted
RECURSIVE Drain(_, _), AfterEmit(_, _)
Drain(buf, out) ==
    LET str == Utf8Decode(buf)
        contentLengthMatch == ContentLengthMatch(str)
        headerEndIndex == IndexOf(str, HeaderEnd)
        contentLength == ParseInt(contentLengthMatch.digits)
        bodyStart == headerEndIndex + 4
    IN  IF contentLengthMatch = NoMatch THEN [buffer |-> buf, out |-> out]
        ELSE IF headerEndIndex = -1 THEN [buffer |-> buf, out |-> out]
        ELSE IF Incomplete(Len(buf), bodyStart, contentLength)
             THEN [buffer |-> buf, out |-> out]
        ELSE AfterEmit(Remainder(buf, bodyStart + contentLength),
                       Append(out,
                         [input  |-> Slice(buf, 0, bodyStart + contentLength),
                          pushed |-> EmitFrame(buf, str, headerEndIndex,
                                               bodyStart, contentLength)]))

\* part_001:234, 261: after buffer = buffer.slice(...) the loop runs again
AfterEmit(buf, out) == Drain(buf, out)

(***************************************************************************)
(* Inputs of the interceptor: streams of valid frames.                     *)
(***************************************************************************)
\* longest stream, in bytes
MaxStreamLen == 72
\* most frames in a stream
MaxFrames == 2

\* "Content-Type: a\r\n"
ContentTypeLine == <<67,111,110,116,101,110,116,45,84,121,112,101,58,32,97,13,10>>

\* a frame: header lines `before`, the Content-Length line for body, header
\* lines `after`, the blank line, body
MkFrame(before, after, body) ==
    before \o ContentLengthPrefix \o ToDecimal(Len(body)) \o CRLF \o after
    \o CRLF \o body

\* the bodies of the frames that take the rewrite path
TargetBodies ==
    { RewriteTarget,
      RewriteTarget \o <<195,169>>,           \* target, then U+00E9
      <<255>> \o RewriteTarget,               \* undecodable byte, then target
      RewriteTarget \o RewriteTarget,
      \* two occurrences that share a quote
      RewriteTarget \o SubSeq(RewriteTarget, 2, Len(RewriteTarget)) }

\* the bodies of the frames that pass through
PlainBodies ==
    { <<>>,                                   \* Content-Length: 0
      <<255,13,10,13,10>> }                   \* undecodable byte, delimiter

FrameCatalogue ==
    {[bytes |-> MkFrame(<<>>, <<>>, b), body |-> b] :
        b \in TargetBodies \cup PlainBodies}
    \cup {[bytes |-> MkFrame(ContentTypeLine, <<>>, <<123,125>>),
           body |-> <<123,125>>],
          [bytes |-> MkFrame(<<>>, ContentTypeLine, RewriteTarget),
           body |-> RewriteTarget],
          [bytes |-> MkFrame(ContentTypeLine, <<>>, RewriteTarget),
           body |-> RewriteTarget]}

\* the bytes of a sequence of frames
BytesOf(fs) == Flatten([k \in 1..Len(fs) |-> fs[k].bytes])

\* the sequences of at most MaxFrames catalogue frames, MaxStreamLen bytes
FrameSeqs ==
    {fs \in UNION {[1..n -> FrameCatalogue] : n \in 1..MaxFrames} :
        Len(BytesOf(fs)) <= MaxStreamLen}

IInit ==
    /\ sent \in FrameSeqs
    /\ junk = <<>>
    /\ stream = BytesOf(sent)
    /\ pos = 0
    /\ buffer = <<>>
    /\ frames = <<>>
    /\ spanned = FALSE

\* one call of transform(chunk, encoding, callback) with the next n bytes
Transform(n) ==
    /\ pos + n <= Len(stream)
    /\ LET r == Drain(Accumulate(buffer, SubSeq(stream, pos + 1, pos + n)),
                      frames)
       IN  /\ buffer' = r.buffer
           /\ frames' = r.out
    /\ pos' = pos + n
    /\ spanned' = (spanned \/ buffer' # <<>>)
    /\ UNCHANGED <<sent, stream, junk>>
    /\ UNCHANGED <<svars, pvars>>

INext == \E n \in 1..MaxStreamLen : Transform(n)

(***************************************************************************)
(* Inputs of the interceptor that are not well formed: bytes that are no   *)
(* frame, then frames.                                                     *)
(***************************************************************************)
\* longest stream of this kind, in bytes
MaxMalformedLen == 60

JunkCatalogue ==
    { \* "Content-Type: a\r\n\r\n": a header block ended by its blank
      \* line that has no Content-Length line
      ContentTypeLine \o CRLF,
      \* "Content-Length: 2\r\n{}": no blank line after the header line
      ContentLengthPrefix \o ToDecimal(2) \o CRLF \o <<123,125>>,
      \* "{}": neither a Content-Length line nor a blank line
      <<123,125>>,
      \* "Content-Length: x\r\n\r\n": the length is not a number
      ContentLengthPrefix \o <<120>> \o CRLF \o CRLF }

\* junk alone, junk and then well-formed frames, or well-formed frames alone
IInitMalformed ==
    /\ junk \in JunkCatalogue \cup {<<>>}
    /\ sent \in {<<>>} \cup FrameSeqs
    /\ junk \o BytesOf(sent) # <<>>
    /\ Len(junk) + Len(BytesOf(sent)) <= MaxMalformedLen
    /\ stream = junk \o BytesOf(sent)
    /\ pos = 0
    /\ buffer = <<>>
    /\ frames = <<>>
    /\ spanned = FALSE

(***************************************************************************)
(* Part II: main and launchGodotEditor.                                    *)
(*                                                                         *)
(* JavaScript runs a handler to its next await without interruption, so    *)
(* each action is the code between two suspension points.  A signal is     *)
(* delivered between two such pieces.                                      *)
(***************************************************************************)
\* part_001:40   let port = 6005
DefaultPort == 6005
\* part_001:274  the alternate of 6005
AlternatePort == 6008
\* part_001:203  for (let i = 0; i < 60; i++)
PollBoundPart001 == 60
\* src/godot-lsp-bridge.js:188  for (let i = 0; i < 40; i++)
PollBoundSrc == 40
\* part_001:204  setTimeout(r, 500)
PollInterval == 500
\* part_001:210  (i + 1) % 10 === 0
ProgressEvery == 10
\* signal numbers; a process ended by a signal it has no listener for exits
\* with 128 + the signal number
SIGINT == 2
SIGTERM == 15
SignalExitBase == 128

Builds == {"part_001", "src"}
Platforms == {"win32", "linux", "darwin"}
\* the values of --port tried: the two defaults and one other port
OtherPort == 7000
Ports == {DefaultPort, AlternatePort, OtherPort}
Signals == {SIGINT, SIGTERM}

PollBound == IF build = "part_001" THEN PollBoundPart001 ELSE PollBoundSrc

SInit ==
    /\ build \in Builds
    /\ platform \in Platforms
    /\ display \in BOOLEAN
    /\ pc = "ProbePrimary"
    /\ port \in Ports
    /\ startPort = port
    /\ lspRunning = FALSE
    /\ spawnedGodotProcess = "none"
    /\ spawnCmd = "none"
    /\ godotAlive = FALSE
    /\ loopI = 0
    /\ handlers = FALSE
    /\ socketState = "none"
    /\ exitCode = -1
    /\ connectPort = 0
    /\ foundExisting = FALSE
    /\ altProbes = 0
    /\ resolveCalls = 0
    /\ spawnCount = 0
    /\ pollProbes = 0
    /\ pollWaited = 0
    /\ firstReachable = 0
    /\ progressLogs = 0
    /\ failure = "none"
    /\ connectCalls = 0
    /\ socketEnds = 0
    /\ killAttempts = 0
    /\ cause = "none"
    /\ fromSocket = <<>>
    /\ stdout = <<>>
    /\ stderr = {}
    /\ childWrites = 0
    /\ cleanupRuns = 0
    /\ killFailed = FALSE
    /\ probedPort = 0
    /\ lastOpenPort = 0
    /\ launchPort = 0

\* isPortOpen (part_001:118-140): true on 'connect', false on 'error' and on
\* 'timeout'
ProbeEvents == {"connect", "error", "timeout"}
IsPortOpen(ev) == ev = "connect"

\* process.exit(code)
Exit(code, why) ==
    /\ pc' = "Exited"
    /\ exitCode' = code
    /\ cause' = why

\* part_001:292-332: the socket and the interceptor are created, the socket
\* and signal listeners are registered, socket.connect(port, host) is called
StartConnect ==
    /\ pc' = "Connecting"
    /\ handlers' = TRUE
    /\ socketState' = "connecting"
    /\ connectCalls' = connectCalls + 1
    /\ connectPort' = port'
    /\ UNCHANGED <<exitCode, cause>>

\* a main that tries the other default port whatever port it was given
AlternateOfAny(p) ==
    IF p = AlternatePort THEN DefaultPort ELSE AlternatePort

\* the alternate port main tries for port p, 0 when it tries none
\* (part_001:273-279)
AlternateOf(p) ==
    IF p = DefaultPort THEN AlternatePort
    ELSE IF p = AlternatePort THEN DefaultPort
    ELSE 0

\* a main that moves to the alternate port whatever its probe said
AdoptPortAlways(open, p) == AlternateOf(p)

\* part_001:275, 278   if (lspRunning) port = 6008 (or 6005)
AdoptPort(open, p) == IF open THEN AlternateOf(p) ELSE p

\* a main that launches whatever the probes said
ShouldLaunchAlways(running) == TRUE

\* part_001:282   if (!lspRunning)
ShouldLaunch(running) == ~running

\* a main that goes on to connect after a failed launch
LaunchFailedIgnored(running) == FALSE

\* part_001:284   if (!lspRunning) { ...; process.exit(1) }
LaunchFailed(running) == ~running

\* part_001:281-289 once ProbingExisting is over with result `running`
AfterProbing(running) ==
    IF ShouldLaunch(running)
    THEN /\ pc' = "FindGodot"
         /\ UNCHANGED <<handlers, socketState, connectCalls, connectPort,
                        exitCode, cause>>
    ELSE StartConnect

\* part_001:283-289: launchGodotEditor has returned `running`
AfterLaunch(running) ==
    IF LaunchFailed(running)
    THEN /\ Exit(1, "launchFailed")
         /\ UNCHANGED <<handlers, socketState, connectCalls, connectPort>>
    ELSE StartConnect

\* a bridge whose fatal exits terminate the editor it launched
FatalExitKillsLaunched(handle) == handle # "none"

\* part_001:284-288, 304-307: a fatal exit is console.error and
\* process.exit(1); spawnedGodotProcess is not used
FatalExitKills(handle) == FALSE

\* the kill, if any, made by a step that is a fatal exit when `fatal`
FatalExit(fatal) ==
    IF fatal /\ FatalExitKills(spawnedGodotProcess)
    THEN /\ killAttempts' = killAttempts + 1
         /\ godotAlive' = FALSE
    ELSE UNCHANGED <<killAttempts, godotAlive>>

\* console.error(...): the messages go to stderr
Log(msgs) == stderr' = stderr \cup msgs

\* part_001:285-286: what main logs once launchGodotEditor returned `running`
LaunchFailureLog(running) ==
    IF LaunchFailed(running) THEN {"failedToStart"} ELSE {}

\* part_001:270, 273, 276: the probe of the configured port resolves
ProbePrimary(ev) ==
    /\ pc = "ProbePrimary"
    /\ probedPort' = port
    /\ lastOpenPort' = IF IsPortOpen(ev) THEN port ELSE lastOpenPort
    /\ UNCHANGED <<ivars, pvars>>
    /\ UNCHANGED <<fromSocket, stdout, stderr, childWrites, cleanupRuns,
                   killFailed>>
    /\ lspRunning' = IsPortOpen(ev)
    /\ foundExisting' = IsPortOpen(ev)
    /\ port' = port
    /\ IF ~IsPortOpen(ev) /\ AlternateOf(port) # 0
       THEN /\ pc' = "ProbeAlternate"
            /\ UNCHANGED <<handlers, socketState, connectCalls, connectPort,
                           exitCode, cause>>
       ELSE AfterProbing(IsPortOpen(ev))
    /\ UNCHANGED <<launchPort,
                   build, platform, display, spawnedGodotProcess, spawnCmd,
                   godotAlive, loopI, startPort, altProbes, resolveCalls,
                   spawnCount, pollProbes, pollWaited, firstReachable,
                   progressLogs, failure, socketEnds, killAttempts>>

\* part_001:274-275, 277-278: the probe of the alternate port resolves
ProbeAlternate(ev) ==
    /\ pc = "ProbeAlternate"
    /\ probedPort' = AlternateOf(port)
    /\ lastOpenPort' = IF IsPortOpen(ev) THEN AlternateOf(port)
                       ELSE lastOpenPort
    /\ UNCHANGED <<ivars, pvars>>
    /\ UNCHANGED <<fromSocket, stdout, stderr, childWrites, cleanupRuns,
                   killFailed>>
    /\ altProbes' = altProbes + 1
    /\ lspRunning' = IsPortOpen(ev)
    /\ foundExisting' = IsPortOpen(ev)
    /\ port' = AdoptPort(IsPortOpen(ev), port)
    /\ AfterProbing(IsPortOpen(ev))
    /\ UNCHANGED <<launchPort,
                   build, platform, display, spawnedGodotProcess, spawnCmd,
                   godotAlive, loopI, startPort, resolveCalls, spawnCount,
                   pollProbes, pollWaited, firstReachable, progressLogs,
                   failure, socketEnds, killAttempts>>

\* part_001:145-150: findGodot()
FindGodot(found) ==
    /\ pc = "FindGodot"
    /\ UNCHANGED <<ivars, pvars>>
    /\ Log(IF found THEN {}
           ELSE {"godotNotFound"} \cup LaunchFailureLog(FALSE))
    /\ UNCHANGED <<fromSocket, stdout, childWrites, cleanupRuns, killFailed>>
    /\ resolveCalls' = resolveCalls + 1
    /\ port' = port
    /\ IF found
       THEN /\ pc' = "FindProject"
            /\ UNCHANGED <<lspRunning, failure, handlers, socketState,
                           connectCalls, connectPort, exitCode, cause>>
       ELSE /\ lspRunning' = FALSE
            /\ failure' = "executableNotFound"
            /\ AfterLaunch(FALSE)
    /\ UNCHANGED <<launchPort, probedPort, lastOpenPort,
                   build, platform, display, spawnedGodotProcess, spawnCmd,
                   godotAlive, loopI, startPort, foundExisting, altProbes,
                   spawnCount, pollProbes, pollWaited, firstReachable,
                   progressLogs, socketEnds, killAttempts>>

\* part_001:152-157: findProjectFile(projectPath)
FindProject(found) ==
    /\ pc = "FindProject"
    /\ UNCHANGED <<ivars, pvars>>
    /\ Log(IF found THEN {}
           ELSE {"projectNotFound"} \cup LaunchFailureLog(FALSE))
    /\ UNCHANGED <<fromSocket, stdout, childWrites, cleanupRuns, killFailed>>
    /\ resolveCalls' = resolveCalls + 1
    /\ port' = port
    /\ IF found
       THEN /\ pc' = "Spawn"
            /\ UNCHANGED <<lspRunning, failure, handlers, socketState,
                           connectCalls, connectPort, exitCode, cause>>
       ELSE /\ lspRunning' = FALSE
            /\ failure' = "projectNotFound"
            /\ AfterLaunch(FALSE)
    /\ UNCHANGED <<launchPort, probedPort, lastOpenPort,
                   build, platform, display, spawnedGodotProcess, spawnCmd,
                   godotAlive, loopI, startPort, foundExisting, altProbes,
                   spawnCount, pollProbes, pollWaited, firstReachable,
                   progressLogs, socketEnds, killAttempts>>

\* part_001:183-199: spawn, detached and with stdio ignored, then unref;
\* xvfb says whether `which xvfb-run` succeeds
Spawn(xvfb) ==
    /\ pc = "Spawn"
    /\ launchPort' = port
    /\ UNCHANGED <<ivars, pvars>>
    /\ Log({"launching", "waiting"}
           \cup (IF platform = "linux" /\ ~display
                 THEN (IF xvfb THEN {"usingXvfb"} ELSE {"noXvfb"})
                 ELSE {}))
    /\ UNCHANGED <<fromSocket, stdout, childWrites, cleanupRuns, killFailed>>
    /\ spawnCmd' = IF platform = "linux" /\ ~display /\ xvfb
                   THEN "xvfb-run" ELSE "godot"
    /\ spawnedGodotProcess' = "process"
    /\ godotAlive' = TRUE
    /\ spawnCount' = spawnCount + 1
    /\ loopI' = 0
    /\ pc' = "PollWait"
    /\ UNCHANGED <<probedPort, lastOpenPort,
                   build, platform, display, port, lspRunning, handlers,
                   socketState, exitCode, startPort, connectPort,
                   foundExisting, altProbes, resolveCalls, pollProbes,
                   pollWaited, firstReachable, progressLogs, failure,
                   connectCalls, socketEnds, killAttempts, cause>>

\* part_001:204: the 500 ms timer of the poll loop fires
PollWait ==
    /\ pc = "PollWait"
    /\ UNCHANGED <<ivars, pvars>>
    /\ UNCHANGED <<fromSocket, stdout, stderr, childWrites, cleanupRuns,
                   killFailed>>
    /\ pollWaited' = pollWaited + PollInterval
    /\ pc' = "PollProbe"
    /\ UNCHANGED <<launchPort, probedPort, lastOpenPort,
                   build, platform, display, port, lspRunning,
                   spawnedGodotProcess, spawnCmd, godotAlive, loopI, handlers,
                   socketState, exitCode, startPort, connectPort,
                   foundExisting, altProbes, resolveCalls, spawnCount,
                   pollProbes, firstReachable, progressLogs, failure,
                   connectCalls, socketEnds, killAttempts, cause>>

\* a poll loop that does not return when the probe succeeds
PollReadyIgnored(open) == FALSE

\* part_001:205   if (await isPortOpen(port, host))
PollReady(open) == open

\* a poll loop that runs one iteration too many
PollContinuesOffByOne(idx) == idx <= PollBound

\* part_001:203   i < 60   (src/godot-lsp-bridge.js:188: i < 40)
PollContinues(idx) == idx < PollBound

\* part_001:205-222: the probe of the poll loop resolves
PollProbe(ev) ==
    /\ pc = "PollProbe"
    /\ probedPort' = port
    /\ lastOpenPort' = IF IsPortOpen(ev) THEN port ELSE lastOpenPort
    /\ UNCHANGED <<ivars, pvars>>
    /\ Log(IF PollReady(IsPortOpen(ev))
           THEN {"ready"} \cup LaunchFailureLog(TRUE)
           ELSE (IF (loopI + 1) % ProgressEvery = 0
                 THEN {"stillWaiting"} ELSE {})
                \cup (IF PollContinues(loopI + 1) THEN {}
                      ELSE {"timeout"} \cup LaunchFailureLog(FALSE)))
    /\ UNCHANGED <<fromSocket, stdout, childWrites, cleanupRuns, killFailed>>
    /\ pollProbes' = pollProbes + 1
    /\ firstReachable' = IF firstReachable = 0 /\ IsPortOpen(ev)
                         THEN pollProbes + 1 ELSE firstReachable
    /\ port' = port
    /\ FatalExit(/\ ~PollReady(IsPortOpen(ev))
                 /\ ~PollContinues(loopI + 1)
                 /\ LaunchFailed(FALSE))
    /\ IF PollReady(IsPortOpen(ev))
       THEN /\ lspRunning' = TRUE
            /\ AfterLaunch(TRUE)
            /\ UNCHANGED <<loopI, progressLogs, failure>>
       ELSE /\ loopI' = loopI + 1
            /\ progressLogs' = IF (loopI + 1) % ProgressEvery = 0
                               THEN progressLogs + 1 ELSE progressLogs
            /\ IF PollContinues(loopI + 1)
               THEN /\ pc' = "PollWait"
                    /\ UNCHANGED <<lspRunning, failure, handlers,
                                   socketState, connectCalls, connectPort,
                                   exitCode, cause>>
               ELSE /\ lspRunning' = FALSE
                    /\ failure' = "readinessTimeout"
                    /\ AfterLaunch(FALSE)
    /\ UNCHANGED <<launchPort,
                   build, platform, display, spawnedGodotProcess, spawnCmd,
                   startPort, foundExisting, altProbes,
                   resolveCalls, spawnCount, pollWaited, socketEnds>>

\* part_001:295-299: 'connect' on the main socket; stdin is piped (through
\* the interceptor in part_001) to the socket
SocketConnect ==
    /\ pc = "Connecting"
    /\ UNCHANGED <<ivars, pvars>>
    /\ Log({"connected"})
    /\ UNCHANGED <<fromSocket, stdout, childWrites, cleanupRuns, killFailed>>
    /\ pc' = "Proxying"
    /\ socketState' = "open"
    /\ UNCHANGED <<launchPort, probedPort, lastOpenPort,
                   build, platform, display, port, lspRunning,
                   spawnedGodotProcess, spawnCmd, godotAlive, loopI, handlers,
                   exitCode, startPort, connectPort, foundExisting,
                   altProbes, resolveCalls, spawnCount, pollProbes,
                   pollWaited, firstReachable, progressLogs, failure,
                   connectCalls, socketEnds, killAttempts, cause>>

\* part_001:304-307: 'error' on the main socket
SocketError ==
    /\ pc \in {"Connecting", "Proxying"}
    /\ UNCHANGED <<ivars, pvars>>
    /\ Log({"socketError"})
    /\ UNCHANGED <<fromSocket, stdout, childWrites, cleanupRuns, killFailed>>
    /\ failure' = "socketError"
    /\ socketState' = "ended"
    /\ Exit(1, "socketError")
    /\ FatalExit(TRUE)
    /\ UNCHANGED <<launchPort, probedPort, lastOpenPort,
                   build, platform, display, port, lspRunning,
                   spawnedGodotProcess, spawnCmd, loopI, handlers,
                   startPort, connectPort, foundExisting, altProbes,
                   resolveCalls, spawnCount, pollProbes, pollWaited,
                   firstReachable, progressLogs, connectCalls, socketEnds>>

\* part_001:309-311: 'close' on the main socket, the peer having closed it
SocketClose ==
    /\ pc = "Proxying"
    /\ UNCHANGED <<ivars, pvars>>
    /\ UNCHANGED <<fromSocket, stdout, stderr, childWrites, cleanupRuns,
                   killFailed>>
    /\ socketState' = "ended"
    /\ Exit(0, "peerClose")
    /\ UNCHANGED <<launchPort, probedPort, lastOpenPort,
                   build, platform, display, port, lspRunning,
                   spawnedGodotProcess, spawnCmd, godotAlive, loopI, handlers,
                   startPort, connectPort, foundExisting, altProbes,
                   resolveCalls, spawnCount, pollProbes, pollWaited,
                   firstReachable, progressLogs, failure, connectCalls,
                   socketEnds, killAttempts>>

\* a cleanup that returns to the event loop
AfterCleanupReturns(p) == p

\* part_001:326  process.exit(0): whatever main was doing, the process is
\* gone when cleanup ends
AfterCleanup(p) == "Exited"

\* part_001:316: cleanup attempts the kill if the handle is set;
\* src/godot-lsp-bridge.js:254-262 has no kill
CleanupKills ==
    build = "part_001" /\ spawnedGodotProcess # "none"

\* SIGTERM or SIGINT is delivered.  With the listeners registered
\* (part_001:329-330) cleanup runs (part_001:314-327): socket.end(), the kill
\* (taskkill on win32, kill() elsewhere; killed says whether it succeeded, a
\* failure is caught), process.exit(0).  Without listeners the signal ends
\* the process with status 128 + sig and nothing of the script runs.
Signal(sig, killed) ==
    /\ pc # "Exited"
    /\ UNCHANGED <<ivars, pvars>>
    /\ IF handlers
       THEN /\ cleanupRuns' = cleanupRuns + 1
            /\ socketEnds' = socketEnds + 1
            /\ socketState' = "ended"
            /\ IF CleanupKills
               THEN /\ Log({"cleaningUp"})
                    /\ killAttempts' = killAttempts + 1
                    /\ godotAlive' = (godotAlive /\ ~killed)
                    /\ killFailed' = (killFailed \/ ~killed)
               ELSE UNCHANGED <<stderr, killAttempts, godotAlive, killFailed>>
            /\ pc' = AfterCleanup(pc)
            /\ exitCode' = IF pc' = "Exited" THEN 0 ELSE exitCode
            /\ cause' = IF pc' = "Exited" THEN "signal" ELSE cause
       ELSE /\ Exit(SignalExitBase + sig, "signalNoListener")
            /\ UNCHANGED <<socketEnds, socketState, killAttempts, godotAlive,
                           stderr, cleanupRuns, killFailed>>
    /\ UNCHANGED <<launchPort, probedPort, lastOpenPort,
                   build, platform, display, port, lspRunning,
                   spawnedGodotProcess, spawnCmd, loopI, handlers, startPort,
                   connectPort, foundExisting, altProbes, resolveCalls,
                   spawnCount, pollProbes, pollWaited, firstReachable,
                   progressLogs, failure, connectCalls, fromSocket, stdout,
                   childWrites>>

\* the chunks the server sends: a reply, and one that holds the rewrite target
SocketChunks == {<<123,125>>, RewriteTarget}
\* most chunks received from the socket
MaxSocketChunks == 2
\* most writes of the launched editor
MaxChildWrites == 1

\* a bridge that rewrites what the server sends as well
ToStdoutRewritten(chunk) ==
    IF NeedsRewrite(chunk) THEN RewriteBody(chunk) ELSE chunk

\* part_001:302  socket.pipe(process.stdout): what is written for a chunk
ToStdout(chunk) == chunk

\* part_001:302: 'data' on the main socket; the pipe writes it to stdout
SocketData(chunk) ==
    /\ pc = "Proxying"
    /\ Len(fromSocket) < MaxSocketChunks
    /\ UNCHANGED <<ivars, pvars>>
    /\ fromSocket' = Append(fromSocket, chunk)
    /\ stdout' = Append(stdout, ToStdout(chunk))
    /\ UNCHANGED <<launchPort, probedPort, lastOpenPort,
                   build, platform, display, pc, port, lspRunning,
                   spawnedGodotProcess, spawnCmd, godotAlive, loopI, handlers,
                   socketState, exitCode, startPort, connectPort,
                   foundExisting, altProbes, resolveCalls, spawnCount,
                   pollProbes, pollWaited, firstReachable, progressLogs,
                   failure, connectCalls, socketEnds, killAttempts, cause,
                   stderr, childWrites, cleanupRuns, killFailed>>

\* part_001:179  stdio: 'ignore'
SpawnStdio == "ignore"

\* part_001:177-199: the launched editor writes to its stdout or stderr;
\* spawned with stdio 'ignore' its output goes nowhere, with 'inherit' it
\* would go to the streams of the bridge
GodotWrites ==
    /\ godotAlive
    /\ childWrites < MaxChildWrites
    /\ UNCHANGED <<ivars, pvars>>
    /\ childWrites' = childWrites + 1
    /\ stdout' = IF SpawnStdio = "inherit"
                 THEN Append(stdout, <<103,111,100,111,116>>) ELSE stdout
    /\ UNCHANGED <<launchPort, probedPort, lastOpenPort,
                   build, platform, display, pc, port, lspRunning,
                   spawnedGodotProcess, spawnCmd, godotAlive, loopI, handlers,
                   socketState, exitCode, startPort, connectPort,
                   foundExisting, altProbes, resolveCalls, spawnCount,
                   pollProbes, pollWaited, firstReachable, progressLogs,
                   failure, connectCalls, socketEnds, killAttempts, cause,
                   fromSocket, stderr, cleanupRuns, killFailed>>

SNext ==
    \/ \E ev \in ProbeEvents : ProbePrimary(ev)
    \/ \E ev \in ProbeEvents : ProbeAlternate(ev)
    \/ \E found \in BOOLEAN : FindGodot(found)
    \/ \E found \in BOOLEAN : FindProject(found)
    \/ \E xvfb \in BOOLEAN : Spawn(xvfb)
    \/ PollWait
    \/ \E ev \in ProbeEvents : PollProbe(ev)
    \/ SocketConnect
    \/ SocketError
    \/ SocketClose
    \/ \E sig \in Signals, killed \in BOOLEAN : Signal(sig, killed)
    \/ \E chunk \in SocketChunks : SocketData(chunk)
    \/ GodotWrites

(***************************************************************************)
(* Part III: one call of isPortOpen (part_001:118-140,                     *)
(* src/godot-lsp-bridge.js:100-122; the two are the same text).            *)
(*                                                                         *)
(* The probe socket emits 'connect', 'error' or 'timeout'; each listener   *)
(* destroys the socket and calls resolve.  Time is the number of ms since  *)
(* socket.connect; the timer armed by socket.setTimeout(timeout) fires     *)
(* when that number reaches the timeout.                                   *)
(***************************************************************************)
\* part_001:118  timeout = 1000
ProbeTimeout == 1000
\* the clock advances in steps of ClockStep ms
ClockStep == 100
\* the probe socket emits at most MaxProbeEvents events
MaxProbeEvents == 2
\* the clock is followed up to MaxClock ms
MaxClock == 1500
\* the kinds of endpoint probed: one that accepts the connection, one that
\* refuses it, one that never answers
Endpoints == {"accepts", "refuses", "silent"}

\* no call of isPortOpen is in progress
PIdle ==
    /\ probePort = 0
    /\ endpoint = "silent"
    /\ probeClock = 0
    /\ probeSocket = "none"
    /\ probeResult = "notCalled"
    /\ probeFirst = "none"
    /\ probeEvents = 0
    /\ socketAtSettle = "none"

\* net.Socket.connect throws ERR_SOCKET_BAD_PORT for a port outside 0..65535
ValidPort(p) == p \in 0..65535

\* a promise that every call of resolve settles anew
SettleLast(res, value) == value

\* part_001:119  new Promise((resolve) => ...): the first call of resolve
\* settles the promise, later calls change nothing
Settle(res, value) == IF res = "pending" THEN value ELSE res

\* part_001:125, 130, 135  socket.destroy()
Destroy(sock) == "destroyed"

\* part_001:126 resolve(true), 131 and 136 resolve(false)
ResolvedValue(ev) == IF ev = "connect" THEN "true" ELSE "false"

\* part_001:119-138: isPortOpen(port, host) is called for the session's port
\* against some endpoint; the executor creates the socket, arms the timeout,
\* registers the three listeners and calls socket.connect
ProbeStart(ep) ==
    /\ probeResult = "notCalled"
    /\ pc = "ProbePrimary"
    /\ probePort' = port
    /\ endpoint' = ep
    /\ IF ValidPort(port)
       THEN /\ probeSocket' = "connecting"
            /\ probeResult' = "pending"
       ELSE /\ probeSocket' = "none"
            /\ probeResult' = "rejected"
    /\ UNCHANGED <<probeClock, probeFirst, probeEvents, socketAtSettle>>
    /\ UNCHANGED <<ivars, svars>>

\* a prober that arms no timer: socket.setTimeout(0) disables the timeout
NoTimeout(timeout) == 0

\* part_001:122  socket.setTimeout(timeout): the delay of the timer armed
\* on the probe socket, 0 if none is armed
ArmedTimeout(timeout) == timeout

\* the instant up to which time can pass with the probe socket connecting:
\* that at which its timer is due
ClockLimit ==
    IF ArmedTimeout(ProbeTimeout) = 0 THEN MaxClock
    ELSE ArmedTimeout(ProbeTimeout)

\* time passes while the probe socket is connecting
ProbeTick ==
    /\ probeSocket = "connecting"
    /\ probeClock < ClockLimit
    /\ probeClock' = IF probeClock + ClockStep < ClockLimit
                     THEN probeClock + ClockStep ELSE ClockLimit
    /\ UNCHANGED <<probePort, endpoint, probeSocket, probeResult, probeFirst,
                   probeEvents, socketAtSettle>>
    /\ UNCHANGED <<ivars, svars>>

\* part_001:124-137: the listener of event ev runs: socket.destroy(), then
\* resolve(...)
ProbeListener(ev) ==
    /\ probeEvents' = probeEvents + 1
    /\ probeFirst' = IF probeFirst = "none" THEN ev ELSE probeFirst
    /\ probeSocket' = Destroy(probeSocket)
    /\ probeResult' = Settle(probeResult, ResolvedValue(ev))
    /\ socketAtSettle' = IF probeResult = "pending"
                         THEN Destroy(probeSocket) ELSE socketAtSettle
    /\ UNCHANGED <<probePort, endpoint, probeClock>>
    /\ UNCHANGED <<ivars, svars>>

\* the listeners stay registered (socket.on), so an event emitted after the
\* first one runs its listener too
LateEvent ==
    /\ probeSocket = "destroyed"
    /\ probeEvents < MaxProbeEvents

\* part_001:124-127: 'connect': the endpoint accepted the connection
ProbeOnConnect ==
    /\ \/ /\ probeSocket = "connecting"
          /\ endpoint = "accepts"
       \/ LateEvent
    /\ ProbeListener("connect")

\* part_001:129-132: 'error': the endpoint refused the connection
ProbeOnError ==
    /\ \/ /\ probeSocket = "connecting"
          /\ endpoint = "refuses"
       \/ LateEvent
    /\ ProbeListener("error")

\* the timer armed at part_001:122 is due
TimerDue ==
    /\ probeSocket = "connecting"
    /\ ArmedTimeout(ProbeTimeout) # 0
    /\ probeClock = ArmedTimeout(ProbeTimeout)

\* part_001:134-137: 'timeout'
ProbeOnTimeout ==
    /\ \/ TimerDue
       \/ LateEvent
    /\ ProbeListener("timeout")

PNext ==
    \/ \E ep \in Endpoints : ProbeStart(ep)
    \/ ProbeTick
    \/ ProbeOnConnect
    \/ ProbeOnError
    \/ ProbeOnTimeout

\* the interceptor before any input
IIdle ==
    /\ sent = <<>>
    /\ stream = <<>>
    /\ pos = 0
    /\ buffer = <<>>
    /\ frames = <<>>
    /\ spanned = FALSE
    /\ junk = <<>>

\* a session that proxies, as the interceptor sees it
SProxying ==
    /\ build = "part_001"
    /\ platform = "linux"
    /\ display = TRUE
    /\ pc = "Proxying"
    /\ port = DefaultPort
    /\ startPort = DefaultPort
    /\ lspRunning = TRUE
    /\ spawnedGodotProcess = "none"
    /\ spawnCmd = "none"
    /\ godotAlive = FALSE
    /\ loopI = 0
    /\ handlers = TRUE
    /\ socketState = "open"
    /\ exitCode = -1
    /\ connectPort = DefaultPort
    /\ foundExisting = TRUE
    /\ altProbes = 0
    /\ resolveCalls = 0
    /\ spawnCount = 0
    /\ pollProbes = 0
    /\ pollWaited = 0
    /\ firstReachable = 0
    /\ progressLogs = 0
    /\ failure = "none"
    /\ connectCalls = 1
    /\ socketEnds = 0
    /\ killAttempts = 0
    /\ cause = "none"
    /\ fromSocket = <<>>
    /\ stdout = <<>>
    /\ stderr = {"connected"}
    /\ childWrites = 0
    /\ cleanupRuns = 0
    /\ killFailed = FALSE
    /\ probedPort = DefaultPort
    /\ lastOpenPort = DefaultPort
    /\ launchPort = 0

\* the bridge starts; its interceptor has seen no input
Init == SInit /\ IIdle /\ PIdle

\* one session of the bridge
Spec == Init /\ [][SNext]_vars

\* a proxying session whose stdin is about to deliver one stream of frames
InitInterceptor == IInit /\ SProxying /\ PIdle

\* the interceptor of a proxying session fed one stream of frames
SpecInterceptor == InitInterceptor /\ [][INext]_vars

\* a proxying session whose stdin is about to deliver any of the streams
InitMalformed == IInitMalformed /\ SProxying /\ PIdle

\* the interceptor of a proxying session fed one stream, malformed or not
SpecMalformed == InitMalformed /\ [][INext]_vars

\* the first isPortOpen call of a session.  The timer of socket.setTimeout
\* and the passage of time are the event loop's doing: a timer that is due
\* fires, so both are weakly fair; the call itself is made by main at once
SpecProber ==
    /\ Init
    /\ [][PNext]_vars
    /\ WF_vars(\E ep \in Endpoints : ProbeStart(ep))
    /\ WF_vars(ProbeTick)
    /\ WF_vars(TimerDue /\ ProbeOnTimeout)

(***************************************************************************)
(* Properties of the Frame Interceptor, checked under SpecInterceptor.     *)
(***************************************************************************)
\* everything handed to this.push by the iterations in frs, concatenated
Emitted(frs) == Flatten([k \in 1..Len(frs) |-> Flatten(frs[k].pushed)])

\* what the interceptor emits when the whole stream arrives as one chunk
OneChunkEmitted == Emitted(Drain(Accumulate(<<>>, stream), <<>>).out)

\* offset just past frame k of sent in stream
EndOffset(k) == Len(BytesOf(SubSeq(sent, 1, k)))

\* An emitted frame as a reader of the socket sees it: the header block up to
\* the first blank line, the value of its Content-Length line, the body.
HeaderBlockOf(out) == Slice(out, 0, IndexOf(out, HeaderEnd))
BodyBytesOf(out) == Slice(out, IndexOf(out, HeaderEnd) + 4, Len(out))
DeclaredLengthOf(out) ==
    LET h == HeaderBlockOf(out)
        at == {i \in 0..Len(h) :
                 /\ i = 0 \/ StartsAt(h, CRLF, i - 2)
                 /\ StartsAt(h, ContentLengthPrefix, i)}
        d == MinOf(at) + Len(ContentLengthPrefix)
    IN  IF at = {} THEN -1 ELSE ParseInt(Slice(h, d, DigitRunEnd(h, d)))

\* C1: once every chunk of a stream of valid frames has been processed, the
\* concatenation of everything emitted equals what is emitted when the whole
\* stream arrives as one chunk, whatever the chunk boundaries were.
C1_ChunkBoundaryInvariant ==
    pos = Len(stream) => Emitted(frames) = OneChunkEmitted

\* C1 witness: a two-frame stream, one of its frames rewritten, delivered in
\* chunks that cut through a frame, is fully processed.
C1_Witness ==
    /\ pos = Len(stream)
    /\ spanned
    /\ Len(sent) = 2
    /\ Len(frames) = 2
    /\ Emitted(frames) # stream

\* C2: a complete frame whose body does not contain the rewrite target is
\* emitted with exactly its input bytes.
C2_PassthroughExact ==
    \A k \in 1..Len(sent) :
        (EndOffset(k) <= pos /\ ~Includes(sent[k].body, RewriteTarget))
            => /\ k <= Len(frames)
               /\ Flatten(frames[k].pushed) = sent[k].bytes

\* C2 witness: a frame without the target, whose body holds a byte that is
\* not UTF-8, has been emitted after a frame that was rewritten.
C2_Witness ==
    /\ Len(frames) = 2
    /\ Includes(sent[1].body, RewriteTarget)
    /\ ~Includes(sent[2].body, RewriteTarget)
    /\ 255 \in {sent[2].body[j] : j \in 1..Len(sent[2].body)}

\* C3: in every emitted frame the Content-Length value of the header equals
\* the byte length of the body that follows it, rewritten or not.
C3_DeclaredLengthMatchesBody ==
    \A k \in 1..Len(frames) :
        LET out == Flatten(frames[k].pushed)
        IN  /\ IndexOf(out, HeaderEnd) # -1
            /\ DeclaredLengthOf(out) = Len(BodyBytesOf(out))

\* C3 witness: a frame has been rewritten and its emitted body has another
\* byte length than the input frame declared.
C3_Witness ==
    \E k \in 1..Len(frames) :
        /\ Len(frames[k].pushed) = 2
        /\ Len(frames[k].pushed[2]) > DeclaredLengthOf(frames[k].input)

(***************************************************************************)
(* Properties of the session, checked under Spec.                          *)
(***************************************************************************)
\* the session launched the editor
Launched == spawnCount > 0

\* the bridge has exited because SIGTERM or SIGINT was delivered
ExitedOnSignal == pc = "Exited" /\ cause \in {"signal", "signalNoListener"}

\* C4: when a session that launched the server process has exited on a
\* termination signal, termination of the launched process was invoked before
\* the exit; in a session that launched nothing no termination is attempted.
C4_SignalTerminatesLaunched ==
    ExitedOnSignal =>
        IF Launched THEN killAttempts > 0 ELSE killAttempts = 0

\* C5: when a session that launched the server process has exited because the
\* peer closed the socket during Proxying, termination of the launched
\* process was invoked before the exit.
C5_PeerCloseTerminatesLaunched ==
    (pc = "Exited" /\ cause = "peerClose" /\ Launched) => killAttempts > 0

\* C6: once a probe of ProbingExisting (primary or alternate) has returned
\* true the session is connecting or beyond, with no executable or project
\* resolution, no spawn, no poll, and no supervised-process reference; the
\* reference is none during ProbingExisting as well.
C6_ReachableEndpointNoLaunch ==
    /\ pc \in {"ProbePrimary", "ProbeAlternate"}
         => spawnedGodotProcess = "none" /\ spawnCount = 0
    /\ foundExisting =>
         /\ pc \in {"Connecting", "Proxying", "Exited"}
         /\ connectCalls = 1
         /\ resolveCalls = 0
         /\ spawnCount = 0
         /\ spawnCmd = "none"
         /\ spawnedGodotProcess = "none"
         /\ ~godotAlive
         /\ pollProbes = 0
         /\ pollWaited = 0

\* C6 witness: the alternate port answered and the session is proxying.
C6_Witness ==
    /\ foundExisting
    /\ altProbes = 1
    /\ port # startPort
    /\ pc = "Proxying"

\* C7: each fatal outcome ends the session with a non-zero exit code; after
\* executable not found, project not found or readiness timeout the main
\* socket was never connected; after a socket error there is one connect and
\* at most one launch, and the bridge has exited.
C7_FatalOutcomesExitNonZero ==
    /\ failure # "none" => pc = "Exited" /\ exitCode > 0
    /\ failure \in {"executableNotFound", "projectNotFound",
                    "readinessTimeout"}
         => connectCalls = 0 /\ socketState = "none" /\ ~handlers
    /\ failure = "socketError" => connectCalls = 1 /\ spawnCount <= 1

\* C7 witness: a socket error on the main connection of a session that
\* launched the editor.
C7_Witness ==
    /\ failure = "socketError"
    /\ Launched
    /\ exitCode = 1

\* C8: a session that ended on a clean peer close, or on a termination signal
\* in whatever state, exited with code 0.
C8_CloseOrSignalExitsZero ==
    (pc = "Exited" /\ cause \in {"peerClose", "signal", "signalNoListener"})
        => exitCode = 0

\* C9: when the k-th probe of the poll is the first that finds the port
\* reachable, the poll has returned success with exactly k probes made, it
\* returns success only then, and every probe was preceded by one wait of
\* PollInterval.
C9_PollReturnsAtFirstReachable ==
    /\ firstReachable # 0 =>
         /\ pollProbes = firstReachable
         /\ firstReachable <= PollBound
         /\ lspRunning
         /\ pc \in {"Connecting", "Proxying", "Exited"}
         /\ connectCalls = 1
         /\ pollWaited = PollInterval * firstReachable
    /\ (Launched /\ lspRunning) => firstReachable # 0
    /\ pollWaited \in {PollInterval * pollProbes,
                        PollInterval * (pollProbes + 1)}
    /\ pc = "PollProbe" => pollWaited = PollInterval * (pollProbes + 1)
    /\ pc = "PollWait" => pollWaited = PollInterval * pollProbes

\* C9 witness: the port became reachable at the third probe.
C9_Witness ==
    /\ firstReachable = 3
    /\ pollProbes = 3
    /\ pc = "Connecting"

\* C10: the server process is launched at most once; the poll makes at most
\* PollBound probes; when every probe has failed it stops after exactly
\* PollBound probes and the session is Fatal with no connection attempt.
C10_PollBoundedOneLaunch ==
    /\ spawnCount <= 1
    /\ pollProbes <= PollBound
    /\ (pollProbes = PollBound /\ firstReachable = 0)
         => failure = "readinessTimeout"
    /\ failure = "readinessTimeout" =>
         /\ pollProbes = PollBound
         /\ firstReachable = 0
         /\ pollWaited = PollInterval * PollBound
         /\ pc = "Exited"
         /\ exitCode = 1
         /\ spawnCount = 1
         /\ connectCalls = 0

\* C10 witness: all probes of the poll failed.
C10_Witness ==
    /\ failure = "readinessTimeout"
    /\ pollProbes = PollBound
    /\ progressLogs = PollBound \div ProgressEvery


\* C11: every isPortOpen call settles with a boolean; while it is pending no
\* more than the timeout has elapsed, and against an endpoint that refuses
\* or never answers it resolves to false no later than the timeout.
C11_ProbeResolvesByTimeout ==
    /\ [](probeResult = "pending" => probeClock <= ProbeTimeout)
    /\ []((probeResult \in {"true", "false"}
            /\ endpoint \in {"refuses", "silent"})
          => (probeResult = "false" /\ probeClock <= ProbeTimeout))
    /\ (probeResult = "pending") ~> (probeResult \in {"true", "false"})

\* the endpoint never answered and the probe resolved false at the timeout
C11_Witness ==
    /\ endpoint = "silent"
    /\ probeFirst = "timeout"
    /\ probeResult = "false"
    /\ probeClock = ProbeTimeout

C13_MalformedBytesWithheld ==
    junk # <<>> => (frames = <<>> /\ buffer = SubSeq(stream, 1, pos))


\* the number of places of s at which pat occurs
CountOccurrences(s, pat) ==
    Cardinality({i \in 0..(Len(s) - Len(pat)) : StartsAt(s, pat, i)})

\* C14: for every emitted frame whose input body contains the target, the
\* emitted body contains the target nowhere, contains the replacement once
\* per occurrence of the target in the input body, and is the input body
\* with each occurrence replaced and every other byte unchanged.
C14_EveryOccurrenceRewritten ==
    \A k \in 1..Len(frames) :
        (k <= Len(sent) /\ Includes(sent[k].body, RewriteTarget)) =>
            LET outBody == BodyBytesOf(Flatten(frames[k].pushed))
            IN  /\ CountOccurrences(outBody, RewriteTarget) = 0
                /\ CountOccurrences(outBody, RewriteReplacement)
                     = CountOccurrences(sent[k].body, RewriteTarget)
                /\ outBody = ReplaceAllFrom(sent[k].body, 0)


\* C15: a frame declaring Content-Length: 0 is emitted, unchanged and with
\* an empty body, by the transform call that delivers the last byte of its
\* blank line, and no byte of the frame that follows is consumed with it.
C15_EmptyBodyFrameComplete ==
    \A k \in 1..Len(sent) :
        (sent[k].body = <<>> /\ EndOffset(k) <= pos) =>
            /\ k <= Len(frames)
            /\ frames[k].input = sent[k].bytes
            /\ Flatten(frames[k].pushed) = sent[k].bytes
            /\ BodyBytesOf(Flatten(frames[k].pushed)) = <<>>
            /\ k = Len(frames) =>
                   buffer = SubSeq(stream, EndOffset(k) + 1, pos)
            /\ k < Len(frames) => frames[k + 1].input = sent[k + 1].bytes

\* an empty-body frame was emitted when nothing of the next frame had come
C15_Witness ==
    /\ Len(sent) = 2
    /\ sent[1].body = <<>>
    /\ pos = EndOffset(1)
    /\ Len(frames) = 1
    /\ buffer = <<>>

\* C19: the frames emitted are the frames received, in their order and each
\* once; a frame is emitted by the time its last byte has been delivered
\* and never before.
C19_FramesInOrderOnceWhenComplete ==
    /\ Len(frames) <= Len(sent)
    /\ \A k \in 1..Len(frames) :
           /\ frames[k].input = sent[k].bytes
           /\ EndOffset(k) <= pos
    /\ \A k \in 1..Len(sent) : EndOffset(k) <= pos => k <= Len(frames)

\* the first frame is out while part of the second is still to come
C19_Witness ==
    /\ Len(sent) = 2
    /\ Len(frames) = 1
    /\ EndOffset(1) < pos
    /\ pos < EndOffset(2)
    /\ frames[1].input = sent[1].bytes

\* C20: after every transform call buffer is empty or a proper prefix of
\* the one frame that follows the emitted ones; it never holds a complete
\* frame.
C20_BufferHoldsProperPrefix ==
    /\ Len(frames) <= Len(sent)
    /\ buffer = SubSeq(stream, EndOffset(Len(frames)) + 1, pos)
    /\ buffer # <<>> =>
           /\ Len(frames) < Len(sent)
           /\ Len(buffer) < Len(sent[Len(frames) + 1].bytes)

\* buffer holds the second frame but for its last byte
C20_Witness ==
    /\ Len(sent) = 2
    /\ Len(frames) = 1
    /\ Len(buffer) = Len(sent[2].bytes) - 1
    /\ buffer = SubSeq(sent[2].bytes, 1, Len(buffer))


\* C16: what has been written to stdout is what the main socket has
\* received, chunk for chunk, in order and unmodified: no diagnostic
\* message, no output of the launched editor and no rewrite is in it.
C16_StdoutIsSocketOutput ==
    stdout = fromSocket

\* the editor was launched and wrote output, diagnostics were logged, and
\* the server sent two chunks, the first holding the rewrite target
C16_Witness ==
    /\ Len(fromSocket) = 2
    /\ fromSocket[1] = RewriteTarget
    /\ childWrites > 0
    /\ {"launching", "ready", "connected"} \subseteq stderr

\* C17: cleanup runs at most once in a session: the socket is ended at most
\* once, termination of the launched process is attempted at most once, and
\* once cleanup has run the bridge has exited with status 0 for good.
C17_CleanupRunsOnce ==
    /\ cleanupRuns <= 1
    /\ socketEnds <= 1
    /\ killAttempts <= 1
    /\ cleanupRuns = 1 =>
           (pc = "Exited" /\ exitCode = 0 /\ cause = "signal")

\* a signal ran cleanup, which ended the socket and attempted the kill
C17_Witness ==
    /\ cleanupRuns = 1
    /\ socketEnds = 1
    /\ killAttempts = 1
    /\ pc = "Exited"

\* C18: when the kill of cleanup fails, the failure is written to stderr
\* and the bridge still exits with status 0.
C18_KillFailureLogged ==
    killFailed =>
        /\ "terminationFailed" \in stderr
        /\ pc = "Exited"
        /\ exitCode = 0


\* C21: the alternate port is probed only after the primary probe returned
\* false and only for a primary port of 6005 (alternate 6008) or 6008
\* (alternate 6005), at most once; `port` changes only to the alternate
\* whose probe returned true, at most once, and never once the launch or
\* the connection attempt has begun; for another primary port no alternate
\* is probed.
C21_AlternatePortRule ==
    /\ [](/\ altProbes <= 1
          /\ altProbes = 1 => startPort \in {DefaultPort, AlternatePort}
          /\ startPort \notin {DefaultPort, AlternatePort} =>
                 (altProbes = 0 /\ port = startPort)
          /\ port # startPort =>
                 /\ altProbes = 1
                 /\ lastOpenPort = port
                 /\ spawnCount = 0
                 /\ \/ startPort = DefaultPort /\ port = AlternatePort
                    \/ startPort = AlternatePort /\ port = DefaultPort)
    /\ [][altProbes' # altProbes =>
             /\ ~lspRunning
             /\ port = startPort
             /\ \/ port = DefaultPort /\ probedPort' = AlternatePort
                \/ port = AlternatePort /\ probedPort' = DefaultPort]_vars
    /\ [][port' # port =>
             /\ altProbes' = altProbes + 1
             /\ port = startPort
             /\ spawnCount = 0
             /\ connectCalls = 0
             /\ port' = probedPort'
             /\ lastOpenPort' = port']_vars

\* the alternate port was adopted and the bridge proxies on it
C21_Witness ==
    /\ port # startPort
    /\ altProbes = 1
    /\ pc = "Proxying"


\* C23: the port handed to socket.connect is the port of the most recent
\* probe that returned true; a session that launches the editor (both
\* initial probes having failed) launches it on, polls and then connects to
\* the port main started with, never the alternate.
C23_ConnectsToLastOpenPort ==
    /\ connectCalls > 0 =>
           (lastOpenPort # 0 /\ connectPort = lastOpenPort)
    /\ spawnCount > 0 => (launchPort = startPort /\ port = startPort)
    /\ pollProbes > 0 => probedPort = startPort
    /\ (spawnCount > 0 /\ connectCalls > 0) => connectPort = startPort

\* both probes of a default port failed, the editor was launched, and the
\* bridge proxies on the port it started with
C23_Witness ==
    /\ startPort = DefaultPort
    /\ altProbes = 1
    /\ spawnCount = 1
    /\ launchPort = DefaultPort
    /\ pc = "Proxying"
    /\ connectPort = DefaultPort


\* C24: termination of the launched editor is attempted only by the cleanup
\* that a signal runs: a session that launched the editor and exits on the
\* readiness timeout or on an error of the main socket has attempted no
\* termination and leaves the editor running.
C24_FatalExitLeavesLaunchedRunning ==
    /\ killAttempts > 0 => (cleanupRuns > 0 /\ cause = "signal")
    /\ (/\ pc = "Exited"
        /\ Launched
        /\ \/ cause = "launchFailed" /\ failure = "readinessTimeout"
           \/ cause = "socketError")
       => (killAttempts = 0 /\ godotAlive)

\* the editor was launched, the main socket failed, and the bridge is gone
\* with the editor running
C24_Witness ==
    /\ pc = "Exited"
    /\ cause = "socketError"
    /\ spawnCount = 1
    /\ godotAlive
    /\ killAttempts = 0


\* the emission took the rewrite path: it pushed the new headers and the
\* new body (part_001:255-256) rather than one slice (part_001:258)
TookRewritePath(fr) == Len(fr.pushed) = 2

\* C22: whatever the input, as long as no emission took the rewrite path,
\* the bytes emitted so far followed by buffer are the bytes received so
\* far.
C22_BytesConserved ==
    (\A k \in 1..Len(frames) : ~TookRewritePath(frames[k])) =>
        Emitted(frames) \o buffer = SubSeq(stream, 1, pos)

\* a stream that starts with bytes that are no frame has had bytes emitted
\* and holds others in buffer
C22_Witness ==
    /\ junk # <<>>
    /\ frames # <<>>
    /\ buffer # <<>>
    /\ \A k \in 1..Len(frames) : ~TookRewritePath(frames[k])


\* the header block hdr with the value of its first Content-Length line,
\* which is the decimal of `from`, replaced by the decimal of `to`
WithDeclaredLength(hdr, from, to) ==
    LET i == IndexOf(hdr, ContentLengthPrefix) + Len(ContentLengthPrefix)
    IN  Slice(hdr, 0, i) \o ToDecimal(to)
        \o Slice(hdr, i + Len(ToDecimal(from)), Len(hdr))

\* C25: a frame of declared length N whose body holds c >= 1 occurrences of
\* the target is emitted with Content-Length N - c, and its header block is
\* otherwise the one received.
C25_RewrittenLengthIsNMinusC ==
    \A k \in 1..Len(frames) :
        (k <= Len(sent) /\ Includes(sent[k].body, RewriteTarget)) =>
            LET out == Flatten(frames[k].pushed)
                N == Len(sent[k].body)
                c == CountOccurrences(sent[k].body, RewriteTarget)
            IN  /\ DeclaredLengthOf(out) = N - c
                /\ HeaderBlockOf(out)
                     = WithDeclaredLength(HeaderBlockOf(sent[k].bytes),
                                          N, N - c)

=============================================================================
